---- MODULE Spec2Model ----
(***************************************************************************)
(* Model of src/app.py: the bank-statement PDF to CSV converter.           *)
(*                                                                         *)
(* Text is modelled as tuples of one-character strings, so that the        *)
(* normalisation, sanitisation and date parsing of the program are         *)
(* computed character by character as the code computes them.             *)
(* Amounts (Python floats) are modelled as integers counting units of      *)
(* 10^-Frac.                                                               *)
(***************************************************************************)
EXTENDS Integers, Sequences, FiniteSets, TLC

\* ------------------------------------------------------------------ bounds
MaxDocs == 2        \* documents in one uploaded batch
MaxValueLen == 4    \* length of the amount strings enumerated for clean_value
MaxDescLen == 6     \* length of the descriptions enumerated for the sanitizer
Frac == 4           \* decimal digits kept by the integer model of a float

\* ------------------------------------------------------- characters, text
Digits == {"0", "1", "2", "3", "4", "5", "6", "7", "8", "9"}
DigitSeq == <<"0", "1", "2", "3", "4", "5", "6", "7", "8", "9">>
Whitespace == {" ", "\t", "\n", "\r"}
LowerSeq == <<"a", "b", "c", "d", "e", "f", "g", "h", "i", "j", "k", "l", "m",
              "n", "o", "p", "q", "r", "s", "t", "u", "v", "w", "x", "y", "z">>
UpperSeq == <<"A", "B", "C", "D", "E", "F", "G", "H", "I", "J", "K", "L", "M",
              "N", "O", "P", "Q", "R", "S", "T", "U", "V", "W", "X", "Y", "Z">>
Letters == {LowerSeq[i] : i \in 1..26} \cup {UpperSeq[i] : i \in 1..26}
\* \w of the re module, on the characters the model uses
WordChars == Letters \cup Digits \cup {"_"}

DigitVal(c) == (CHOOSE i \in 1..10 : DigitSeq[i] = c) - 1

\* str.lower() of one character
Lower(c) ==
    IF \E i \in 1..26 : UpperSeq[i] = c
    THEN LowerSeq[CHOOSE i \in 1..26 : UpperSeq[i] = c]
    ELSE c

RECURSIVE Pow10(_)
Pow10(n) == IF n <= 0 THEN 1 ELSE 10 * Pow10(n - 1)

\* the value of a run of decimal digits
RECURSIVE ToInt(_)
ToInt(digs) ==
    IF digs = <<>> THEN 0
    ELSE 10 * ToInt(SubSeq(digs, 1, Len(digs) - 1)) + DigitVal(digs[Len(digs)])

Contains(s, c) == \E i \in 1..Len(s) : s[i] = c

\* s with every character of the set removed
Remove(s, set) == SelectSeq(s, LAMBDA c : c \notin set)

\* str.strip(chars): leading and trailing characters of the set removed
StripSet(s, set) ==
    IF \A i \in 1..Len(s) : s[i] \in set THEN <<>>
    ELSE LET a == CHOOSE i \in 1..Len(s) :
                      s[i] \notin set /\ \A j \in 1..(i - 1) : s[j] \in set
             b == CHOOSE i \in 1..Len(s) :
                      s[i] \notin set /\ \A j \in (i + 1)..Len(s) : s[j] \in set
         IN  SubSeq(s, a, b)

\* str.strip()
Strip(s) == StripSet(s, Whitespace)

\* pat occurs in s at position i (case-sensitive)
MatchAt(s, i, pat) ==
    /\ i + Len(pat) - 1 <= Len(s)
    /\ \A k \in 1..Len(pat) : s[i + k - 1] = pat[k]

\* pat occurs in s at position i, ignoring letter case (re.IGNORECASE)
MatchAtCI(s, i, pat) ==
    /\ i + Len(pat) - 1 <= Len(s)
    /\ \A k \in 1..Len(pat) : Lower(s[i + k - 1]) = Lower(pat[k])

\* number of consecutive characters of the set in s from position i on
RECURSIVE RunLen(_, _, _)
RunLen(s, i, set) ==
    IF i > Len(s) \/ s[i] \notin set THEN 0 ELSE 1 + RunLen(s, i + 1, set)

\* str.replace(pat, rep): leftmost non-overlapping occurrences, from position i
RECURSIVE ReplaceFrom(_, _, _, _)
ReplaceFrom(s, i, pat, rep) ==
    IF i > Len(s) THEN <<>>
    ELSE IF MatchAt(s, i, pat)
         THEN rep \o ReplaceFrom(s, i + Len(pat), pat, rep)
         ELSE <<s[i]>> \o ReplaceFrom(s, i + 1, pat, rep)

Replace(s, pat, rep) == ReplaceFrom(s, 1, pat, rep)

\* ----------------------------------------------------------- cell values
\* A cell or a result is a string, a float, or None / NaN (which every
\* operation of the program modelled here treats alike).
NoneV == [k |-> "none", s |-> <<>>, v |-> 0]
Str(t) == [k |-> "str", s |-> t, v |-> 0]
Num(n) == [k |-> "num", s |-> <<>>, v |-> n]
IsNone(x) == x.k = "none"

\* ------------------------------------------------------ 2. helper functions
\* re.sub(r'(\d)\s+(\d)', r'\1\2', value): leftmost non-overlapping matches
RECURSIVE MergeDigitGaps(_, _)
MergeDigitGaps(s, i) ==
    IF i > Len(s) THEN <<>>
    ELSE LET w == RunLen(s, i + 1, Whitespace)
         IN  IF /\ s[i] \in Digits
                /\ w >= 1
                /\ i + w + 1 <= Len(s)
                /\ s[i + w + 1] \in Digits
             THEN <<s[i], s[i + w + 1]>> \o MergeDigitGaps(s, i + w + 2)
             ELSE <<s[i]>> \o MergeDigitGaps(s, i + 1)

\* re.match(r'^-?\d*\.?\d+$', value)
NumberRe(s) ==
    LET body == IF Len(s) >= 1 /\ s[1] = "-" THEN SubSeq(s, 2, Len(s)) ELSE s
        dots == {i \in 1..Len(body) : body[i] = "."}
    IN  /\ Len(body) >= 1
        /\ \A i \in 1..Len(body) : body[i] \in Digits \cup {"."}
        /\ Cardinality(dots) <= 1
        /\ body[Len(body)] \in Digits

\* float(value) of a string NumberRe accepts, in units of 10^-Frac
\* (digits beyond the Frac-th decimal are below the model's resolution)
ParseFloat(s) ==
    LET neg == s[1] = "-"
        body == IF neg THEN SubSeq(s, 2, Len(s)) ELSE s
        dot == IF Contains(body, ".")
               THEN CHOOSE i \in 1..Len(body) : body[i] = "."
               ELSE Len(body) + 1
        ip == SubSeq(body, 1, dot - 1)
        fp == SubSeq(body, dot + 1, Len(body))
        fk == IF Len(fp) > Frac THEN SubSeq(fp, 1, Frac) ELSE fp
        mag == ToInt(ip) * Pow10(Frac) + ToInt(fk) * Pow10(Frac - Len(fk))
    IN  IF neg THEN 0 - mag ELSE mag

\* step 1 of clean_value: the currency symbols, matched with re.IGNORECASE
CurrencySymbols == {"R", "r", "$"}

\* step 4 of clean_value: the Dr/Cr indicators
DrCrMarkers(s) == Strip(Replace(Replace(s, <<"C", "r">>, <<>>), <<"D", "r">>, <<"-">>))

clean_value(value) ==
    IF value.k = "num" THEN value
    ELSE IF value.k # "str" THEN NoneV
    ELSE LET v0 == Remove(Strip(value.s), {"\n", "\r"})
             v1 == Remove(v0, CurrencySymbols)
             v2 == MergeDigitGaps(v1, 1)
             v3 == IF Contains(v2, ",")
                   THEN Remove(v2, {".", " "})
                   ELSE Remove(v2, {" "})
             v4 == Replace(v3, <<",">>, <<".">>)
             v5 == DrCrMarkers(v4)
             v6 == SelectSeq(v5, LAMBDA c : c \in Digits \cup {".", "-"})
         IN  IF NumberRe(v6) THEN Num(ParseFloat(v6)) ELSE NoneV

\* the month abbreviations of the reference pattern and of %b
MonthNames == <<<<"J", "a", "n">>,
              <<"F", "e", "b">>,
              <<"M", "a", "r">>,
              <<"A", "p", "r">>,
              <<"M", "a", "y">>,
              <<"J", "u", "n">>,
              <<"J", "u", "l">>,
              <<"A", "u", "g">>,
              <<"S", "e", "p">>,
              <<"O", "c", "t">>,
              <<"N", "o", "v">>,
              <<"D", "e", "c">>>>

\* the labels of the reference-code pattern
RefLabels == <<<<"R", "e", "f">>,
             <<"R", "e", "f", "e", "r", "e", "n", "c", "e">>,
             <<"N", "o">>,
             <<"N", "r">>,
             <<"I", "D">>>>

\* the transaction-type prefixes
TypePrefixes == <<<<"P", "O", "S", " ", "P", "u", "r", "c", "h", "a", "s", "e">>,
                <<"A", "T", "M", " ", "W", "i", "t", "h", "d", "r", "a", "w", "a", "l">>,
                <<"I", "m", "m", "e", "d", "i", "a", "t", "e", " ", "P", "a", "y", "m", "e", "n", "t">>,
                <<"I", "n", "t", "e", "r", "n", "e", "t", " ", "P", "m", "t", " ", "T", "o">>,
                <<"T", "e", "l", "l", "e", "r", " ", "T", "r", "a", "n", "s", "f", "e", "r", " ", "D", "e", "b", "i", "t">>,
                <<"D", "i", "r", "e", "c", "t", " ", "C", "r", "e", "d", "i", "t">>,
                <<"E", "F", "T">>,
                <<"I", "B", " ", "P", "a", "y", "m", "e", "n", "t">>>>

SerialLabel == <<"S", "e", "r", "i", "a", "l", ":">>

\* Length of the match of one of the four patterns of clean_description_for_xero
\* at position i of s, 0 when it does not match there.
\*   "date":   \s*\d{6}\s+\d{4}\s+\d{2}\s+(?:Jan|...|Dec)        (IGNORECASE)
\*   "ref":    (?:Ref\s*|Reference\s*|No\s*|Nr\s*|ID\s*):\s*[\w\d\-]+  (IGNORECASE)
\*   "serial": Serial:\d+/\d+
\*   "prefix": (?:POS Purchase|...|IB Payment)\s*                 (IGNORECASE)
DateRefLen(s, i) ==
    LET w0 == RunLen(s, i, Whitespace)
        a == i + w0
        d1 == RunLen(s, a, Digits)
        w1 == RunLen(s, a + 6, Whitespace)
        b == a + 6 + w1
        d2 == RunLen(s, b, Digits)
        w2 == RunLen(s, b + 4, Whitespace)
        c == b + 4 + w2
        d3 == RunLen(s, c, Digits)
        w3 == RunLen(s, c + 2, Whitespace)
        m == c + 2 + w3
    IN  IF /\ d1 = 6 /\ w1 >= 1
           /\ d2 = 4 /\ w2 >= 1
           /\ d3 = 2 /\ w3 >= 1
           /\ \E k \in 1..Len(MonthNames) : MatchAtCI(s, m, MonthNames[k])
        THEN m + 3 - i
        ELSE 0

RefLabelLen(s, i, lab) ==
    LET w1 == RunLen(s, i + Len(lab), Whitespace)
        colon == i + Len(lab) + w1
        w2 == RunLen(s, colon + 1, Whitespace)
        n == RunLen(s, colon + 1 + w2, WordChars \cup {"-"})
    IN  IF /\ MatchAtCI(s, i, lab)
           /\ colon <= Len(s)
           /\ s[colon] = ":"
           /\ n >= 1
        THEN Len(lab) + w1 + 1 + w2 + n
        ELSE 0

RefCodeLen(s, i) ==
    IF \E k \in 1..Len(RefLabels) : RefLabelLen(s, i, RefLabels[k]) > 0
    THEN LET k == CHOOSE k \in 1..Len(RefLabels) :
                      /\ RefLabelLen(s, i, RefLabels[k]) > 0
                      /\ \A j \in 1..(k - 1) : RefLabelLen(s, i, RefLabels[j]) = 0
         IN  RefLabelLen(s, i, RefLabels[k])
    ELSE 0

SerialLen(s, i) ==
    LET a == i + Len(SerialLabel)
        d1 == RunLen(s, a, Digits)
        d2 == RunLen(s, a + d1 + 1, Digits)
    IN  IF /\ MatchAt(s, i, SerialLabel)
           /\ d1 >= 1
           /\ a + d1 <= Len(s)
           /\ s[a + d1] = "/"
           /\ d2 >= 1
        THEN Len(SerialLabel) + d1 + 1 + d2
        ELSE 0

PrefixLen(s, i) ==
    IF \E k \in 1..Len(TypePrefixes) : MatchAtCI(s, i, TypePrefixes[k])
    THEN LET k == CHOOSE k \in 1..Len(TypePrefixes) :
                      /\ MatchAtCI(s, i, TypePrefixes[k])
                      /\ \A j \in 1..(k - 1) : ~MatchAtCI(s, i, TypePrefixes[j])
         IN  Len(TypePrefixes[k]) + RunLen(s, i + Len(TypePrefixes[k]), Whitespace)
    ELSE 0

PatternLen(pat, s, i) ==
    CASE pat = "date" -> DateRefLen(s, i)
      [] pat = "ref" -> RefCodeLen(s, i)
      [] pat = "serial" -> SerialLen(s, i)
      [] pat = "prefix" -> PrefixLen(s, i)

\* re.sub(pattern, '', s): the leftmost non-overlapping matches removed in one
\* left-to-right pass, from position i
RECURSIVE SubFrom(_, _, _)
SubFrom(pat, s, i) ==
    IF i > Len(s) THEN <<>>
    ELSE LET n == PatternLen(pat, s, i)
         IN  IF n > 0 THEN SubFrom(pat, s, i + n)
             ELSE <<s[i]>> \o SubFrom(pat, s, i + 1)

\* re.sub(r'\s{2,}', ' ', s)
RECURSIVE CollapseSpaces(_, _)
CollapseSpaces(s, i) ==
    IF i > Len(s) THEN <<>>
    ELSE LET w == RunLen(s, i, Whitespace)
         IN  IF w >= 2 THEN <<" ">> \o CollapseSpaces(s, i + w)
             ELSE <<s[i]>> \o CollapseSpaces(s, i + 1)

\* the final .strip(' -').strip()
TrimEnds(s) == Strip(StripSet(s, {" ", "-"}))

clean_description_for_xero(description) ==
    IF description.k # "str" THEN <<>>
    ELSE LET d0 == Strip(description.s)
             d1 == SubFrom("date", d0, 1)
             d2 == SubFrom("ref", d1, 1)
             d3 == SubFrom("serial", d2, 1)
             d4 == SubFrom("prefix", d3, 1)
         IN  TrimEnds(CollapseSpaces(d4, 1))

\* ------------------------------------------------------------ year, dates
\* year_pattern = r'(?:Statement Period|Statement Date).*?(\d{4})'
YearMarkers == <<<<"S", "t", "a", "t", "e", "m", "e", "n", "t", " ", "P", "e", "r", "i", "o", "d">>,
                 <<"S", "t", "a", "t", "e", "m", "e", "n", "t", " ", "D", "a", "t", "e">>>>

\* The four digits the pattern captures when it is matched from position i:
\* the marker, then the fewest characters other than a newline, then \d{4}.
YearGroupAt(text, i, marker) ==
    LET e == i + Len(marker)
        ok(j) == /\ j + 3 <= Len(text)
                 /\ \A k \in j..(j + 3) : text[k] \in Digits
                 /\ \A k \in e..(j - 1) : text[k] # "\n"
    IN  IF MatchAtCI(text, i, marker) /\ \E j \in e..Len(text) : ok(j)
        THEN LET j == CHOOSE j \in e..Len(text) :
                          ok(j) /\ \A h \in e..(j - 1) : ~ok(h)
             IN  Str(SubSeq(text, j, j + 3))
        ELSE NoneV

\* the group captured when the match starts at position i, None if none does
YearAt(text, i) ==
    LET first == YearGroupAt(text, i, YearMarkers[1])
    IN  IF IsNone(first) THEN YearGroupAt(text, i, YearMarkers[2]) ELSE first

\* re.search(year_pattern, full_text, re.IGNORECASE); match.group(1) or None
YearSearch(text) ==
    LET hits == {i \in 1..Len(text) : ~IsNone(YearAt(text, i))}
    IN  IF hits = {} THEN NoneV
        ELSE YearAt(text, CHOOSE i \in hits : \A h \in hits : i <= h)

\* A parsed timestamp, or NaT (ok = FALSE); tz marks a timezone-aware value.
NaT == [ok |-> FALSE, d |-> 0, m |-> 0, y |-> 0, tz |-> FALSE]
Stamp(d, m, y, tz) == [ok |-> TRUE, d |-> d, m |-> m, y |-> y, tz |-> tz]

IsLeap(y) == (y % 4 = 0 /\ y % 100 # 0) \/ y % 400 = 0

DaysIn(m, y) ==
    IF m = 2 THEN (IF IsLeap(y) THEN 29 ELSE 28)
    ELSE IF m \in {4, 6, 9, 11} THEN 30 ELSE 31

\* a calendar date a nanosecond Timestamp can hold
ValidDate(d, m, y) ==
    /\ m \in 1..12
    /\ d >= 1 /\ d <= DaysIn(m, y)
    /\ y >= 1678 /\ y <= 2261

\* the timestamp of the date, NaT when it is no date a Timestamp can hold
DateOrNaT(d, m, y, tz) == IF ValidDate(d, m, y) THEN Stamp(d, m, y, tz) ELSE NaT

\* the first parse when it succeeded, the other one otherwise
OrElse(t, other) == IF t.ok THEN t ELSE other

\* %d of strptime: 3[0-1]|[1-2]\d|0[1-9]|[1-9]; the number of characters
\* it takes at position i, 0 when it does not match
DayLen(s, i) ==
    LET two == i + 1 <= Len(s) /\ s[i] \in Digits /\ s[i + 1] \in Digits
        v2 == IF two THEN ToInt(SubSeq(s, i, i + 1)) ELSE 0
    IN  IF two /\ v2 >= 1 /\ v2 <= 31 THEN 2
        ELSE IF i <= Len(s) /\ s[i] \in Digits /\ s[i] # "0" THEN 1
        ELSE 0

MonthAt(s, i) ==
    IF \E k \in 1..12 : MatchAtCI(s, i, MonthNames[k])
    THEN CHOOSE k \in 1..12 : MatchAtCI(s, i, MonthNames[k])
    ELSE 0

\* the fields of a string that matches '%d %b %Y' from the month on, which
\* starts at position mi; NaT when it does not match
MonthYearAt(s, mi, d) ==
    LET w2 == RunLen(s, mi + 3, Whitespace)
    IN  IF /\ MonthAt(s, mi) >= 1
           /\ w2 >= 1
           /\ mi + 3 + w2 + 3 = Len(s)
           /\ RunLen(s, mi + 3 + w2, Digits) = 4
        THEN DateOrNaT(d, MonthAt(s, mi), ToInt(SubSeq(s, Len(s) - 3, Len(s))), FALSE)
        ELSE NaT

DayThenAt(s, dl) ==
    LET w1 == RunLen(s, 1 + dl, Whitespace)
    IN  IF dl >= 1 /\ w1 >= 1
        THEN MonthYearAt(s, 1 + dl + w1, ToInt(SubSeq(s, 1, dl)))
        ELSE NaT

\* pd.to_datetime(s, format='%d %b %Y', errors='coerce') of one string
Strptime(s) == DayThenAt(s, DayLen(s, 1))

\* the positions of the character c in s, in order
Positions(s, c) == {i \in 1..Len(s) : s[i] = c}

AllDigits(s) == Len(s) >= 1 /\ \A i \in 1..Len(s) : s[i] \in Digits

\* pd.to_datetime(raw, errors='coerce', dayfirst=True) of one string, for the
\* shapes of fragment the model feeds it: D/M/YYYY read day first, a
\* fragment that already carries its year (DD Mon YYYY), an ISO 8601
\* timestamp YYYY-MM-DDTHH:MMZ (timezone-aware), and text that is no date.
ParseDayFirst(raw) ==
    LET sl == Positions(raw, "/")
        a == CHOOSE i \in sl : \A j \in sl : i <= j
        b == CHOOSE i \in sl : \A j \in sl : i >= j
        dd == SubSeq(raw, 1, a - 1)
        mm == SubSeq(raw, a + 1, b - 1)
        yy == SubSeq(raw, b + 1, Len(raw))
        iso == /\ Len(raw) = 17
               /\ AllDigits(SubSeq(raw, 1, 4)) /\ raw[5] = "-"
               /\ AllDigits(SubSeq(raw, 6, 7)) /\ raw[8] = "-"
               /\ AllDigits(SubSeq(raw, 9, 10)) /\ raw[11] = "T"
               /\ AllDigits(SubSeq(raw, 12, 13)) /\ raw[14] = ":"
               /\ AllDigits(SubSeq(raw, 15, 16)) /\ raw[17] = "Z"
               /\ ToInt(SubSeq(raw, 12, 13)) <= 23
               /\ ToInt(SubSeq(raw, 15, 16)) <= 59
    IN  IF /\ Cardinality(sl) = 2
           /\ AllDigits(dd) /\ Len(dd) <= 2
           /\ AllDigits(mm) /\ Len(mm) <= 2
           /\ AllDigits(yy) /\ Len(yy) = 4
        THEN DateOrNaT(ToInt(dd), ToInt(mm), ToInt(yy), FALSE)
        ELSE OrElse(Strptime(raw),
                    IF iso
                    THEN DateOrNaT(ToInt(SubSeq(raw, 9, 10)), ToInt(SubSeq(raw, 6, 7)),
                                   ToInt(SubSeq(raw, 1, 4)), TRUE)
                    ELSE NaT)

\* n written with exactly w decimal digits
RECURSIVE ZeroPad(_, _)
ZeroPad(n, w) ==
    IF w = 0 THEN <<>> ELSE ZeroPad(n \div 10, w - 1) \o <<DigitSeq[(n % 10) + 1]>>

\* Timestamp.strftime('%d/%m/%Y')
Strftime(t) == ZeroPad(t.d, 2) \o <<"/">> \o ZeroPad(t.m, 2) \o <<"/">> \o ZeroPad(t.y, 4)

\* ------------------------------------------------- 4. core extraction logic
\* A document is [text, tables]: what pdfplumber gives for the uploaded file,
\* the text of its pages and their tables, each [header, rows] (the first row
\* of a pdfplumber table and the rows after it).  A header cell is a string
\* without surrounding whitespace; every other cell is Str(..) or NoneV.
\* A frame is [cols, rows] with rows [idx, c]: the DataFrame index label and
\* the cells in column order.

Range(f) == {f[i] : i \in DOMAIN f}

Notice(f, level, code) == [file |-> f, level |-> level, code |-> code]

\* `if table and len(table) > 1`
KeptTables(tables) == SelectSeq(tables, LAMBDA t : Len(t.rows) >= 1)

\* the columns of pd.concat(all_tables): the union, in order of appearance
RECURSIVE UnionCols(_, _)
UnionCols(tables, k) ==
    IF k = 0 THEN <<>>
    ELSE LET before == UnionCols(tables, k - 1)
         IN  before \o SelectSeq(tables[k].header, LAMBDA h : h \notin Range(before))

ColIdx(cols, name) ==
    CHOOSE n \in 1..Len(cols) : cols[n] = name /\ \A j \in 1..(n - 1) : cols[j] # name

HasCol(cols, name) == name \in Range(cols)

\* the rows of pd.concat(all_tables, ignore_index=True): a cell the row's own
\* table does not have is NaN
RECURSIVE ConcatRows(_, _, _)
ConcatRows(tables, cols, k) ==
    IF k = 0 THEN <<>>
    ELSE LET before == ConcatRows(tables, cols, k - 1)
             t == tables[k]
         IN  before \o
             [n \in 1..Len(t.rows) |->
                [idx |-> Len(before) + n - 1,
                 c |-> [j \in 1..Len(cols) |->
                          IF HasCol(t.header, cols[j])
                          THEN t.rows[n][ColIdx(t.header, cols[j])]
                          ELSE NoneV]]]

ConcatTables(tables) ==
    LET cols == UnionCols(tables, Len(tables))
    IN  [cols |-> cols, rows |-> ConcatRows(tables, cols, Len(tables))]

\* column_mapping, in the order its items are iterated
ColumnMapping ==
    << <<"Date", <<"Date", "Trans Date", "Transaction Date">> >>,
       <<"Description", <<"Description", "Details", "Transaction Details">> >>,
       <<"Debits", <<"Debits (R)", "Debits", "Debit (R)", "Debit Amount">> >>,
       <<"Credits", <<"Credits (R)", "Credits", "Credit (R)", "Credit Amount">> >>,
       <<"Fees", <<"Fees (R)", "Fees", "Service Fee">> >>,
       <<"Amount", <<"Amount", "Value", "Transaction Amount">> >>,
       <<"Balance", <<"Balance (R)", "Balance", "Running Balance">> >> >>

\* one pass of the inner loop: the first synonym present is renamed, then break
RenameOne(cols, k) ==
    LET std == ColumnMapping[k][1]
        poss == ColumnMapping[k][2]
    IN  IF \E j \in 1..Len(poss) : HasCol(cols, poss[j])
        THEN LET j == CHOOSE j \in 1..Len(poss) :
                          HasCol(cols, poss[j]) /\ \A h \in 1..(j - 1) : ~HasCol(cols, poss[h])
             IN  [n \in 1..Len(cols) |-> IF cols[n] = poss[j] THEN std ELSE cols[n]]
        ELSE cols

RECURSIVE RenameFrom(_, _)
RenameFrom(cols, k) ==
    IF k > Len(ColumnMapping) THEN cols ELSE RenameFrom(RenameOne(cols, k), k + 1)

RenameColumns(df) == [cols |-> RenameFrom(df.cols, 1), rows |-> df.rows]

\* df.drop(columns=names, errors='ignore')
DropCols(df, names) ==
    LET keep == SelectSeq([n \in 1..Len(df.cols) |-> n], LAMBDA n : df.cols[n] \notin names)
    IN  [cols |-> [j \in 1..Len(keep) |-> df.cols[keep[j]]],
         rows |-> [r \in 1..Len(df.rows) |->
                     [idx |-> df.rows[r].idx,
                      c |-> [j \in 1..Len(keep) |-> df.rows[r].c[keep[j]]]]]]

CellOf(df, row, name) == row.c[ColIdx(df.cols, name)]

\* .apply(clean_value).fillna(0)
FillNaZero(x) == IF IsNone(x) THEN 0 ELSE x.v

CleanOrZero(cell) == FillNaZero(clean_value(cell))

\* AmountOf with the two columns taken the other way round
AmountOfSwapped(df, row) ==
    IF ~HasCol(df.cols, "Amount")
    THEN Num(0
             + (IF HasCol(df.cols, "Debits") THEN CleanOrZero(CellOf(df, row, "Debits")) ELSE 0)
             - (IF HasCol(df.cols, "Credits") THEN CleanOrZero(CellOf(df, row, "Credits")) ELSE 0))
    ELSE clean_value(CellOf(df, row, "Amount"))

\* "Handle Amount": Credits minus Debits when there is no Amount column,
\* the cleaned Amount cell otherwise
AmountOf(df, row) ==
    IF ~HasCol(df.cols, "Amount")
    THEN Num(0
             + (IF HasCol(df.cols, "Credits") THEN CleanOrZero(CellOf(df, row, "Credits")) ELSE 0)
             - (IF HasCol(df.cols, "Debits") THEN CleanOrZero(CellOf(df, row, "Debits")) ELSE 0))
    ELSE clean_value(CellOf(df, row, "Amount"))

NonEmptyText(cell) == cell.k = "str" /\ Strip(cell.s) # <<>>

\* "Filter valid transaction rows (non-empty Date, Description, non-zero Amount)"
ValidRow(r) ==
    /\ NonEmptyText(r.Date)
    /\ NonEmptyText(r.Description)
    /\ ~IsNone(r.Amount) /\ r.Amount.v # 0

\* the frame before the Amount is computed: tables concatenated, columns
\* renamed, the Fees column excluded
StandardFrame(doc) ==
    DropCols(RenameColumns(ConcatTables(KeptTables(doc.tables))), {"Fees"})

\* the rows [idx, Date, Description, Amount] of the frame
TransactionRows(df) ==
    [n \in 1..Len(df.rows) |->
        [idx |-> df.rows[n].idx,
         Date |-> CellOf(df, df.rows[n], "Date"),
         Description |-> CellOf(df, df.rows[n], "Description"),
         Amount |-> AmountOf(df, df.rows[n])]]

\* the end of extract_from_pdf: the valid rows with the year, or the error
ExtractResult(valid, year, f) ==
    IF valid = <<>>
    THEN [df |-> <<>>, year |-> NoneV,
          notices |-> <<Notice(f, "info", "initiating"),
                        Notice(f, "error", "no_valid_transactions")>>]
    ELSE [df |-> valid, year |-> year,
          notices |-> <<Notice(f, "info", "initiating"),
                        Notice(f, "success", "extraction_successful")>>]

\* extract_from_pdf once the tables are one frame df
ExtractFrame(df, year, f) ==
    IF ~HasCol(df.cols, "Date") \/ ~HasCol(df.cols, "Description")
    THEN \* df['Date'] raises KeyError, caught by the except clause
         [df |-> <<>>, year |-> NoneV,
          notices |-> <<Notice(f, "info", "initiating"),
                        Notice(f, "error", "unexpected_error")>>]
    ELSE ExtractResult(SelectSeq(TransactionRows(df), ValidRow), year, f)

\* extract_from_pdf: (DataFrame, statement_year) and the messages it shows
extract_from_pdf(doc, f) ==
    IF KeptTables(doc.tables) = <<>>
    THEN [df |-> <<>>, year |-> NoneV,
          notices |-> <<Notice(f, "info", "initiating"),
                        Notice(f, "error", "no_tables")>>]
    ELSE ExtractFrame(StandardFrame(doc), YearSearch(doc.text), f)

\* the Amount column cleaned once more, the rows without an Amount dropped
CleanedAgain(df) ==
    SelectSeq([n \in 1..Len(df) |-> [df[n] EXCEPT !.Amount = clean_value(df[n].Amount)]],
              LAMBDA r : ~IsNone(r.Amount))

\* parse_pdf_data after its call of extract_from_pdf returned e
ParseResult(e, kept, f) ==
    IF e.df # <<>> /\ kept # <<>>
    THEN [df |-> kept, year |-> e.year, notices |-> e.notices]
    ELSE [df |-> <<>>, year |-> NoneV,
          notices |-> e.notices \o <<Notice(f, "error", "extraction_failed")>>]

ParseExtracted(e, f) == ParseResult(e, CleanedAgain(e.df), f)

\* parse_pdf_data: (DataFrame, statement_year) and the messages shown
parse_pdf_data(doc, f) == ParseExtracted(extract_from_pdf(doc, f), f)

\* ------------------------------------------------ 5. the processing loop
\* df['Amount'].round(2): to the nearest multiple of 0.01, ties to even
Round2(v) ==
    LET q == Pow10(Frac - 2)
        a == IF v < 0 THEN 0 - v ELSE v
        r == a % q
        down == a - r
        up == down + q
        m == IF 2 * r < q THEN down
             ELSE IF 2 * r > q THEN up
             ELSE IF (down \div q) % 2 = 0 THEN down ELSE up
    IN  IF v < 0 THEN 0 - m ELSE m

\* steps 1 to 4 of the date fix for one row: the strict parse of the
\* fragment with the statement year, then the day-first parse of the fragment
DateRaw(r) == Strip(r.Date.s)

StrictParse(r, year) == Strptime(DateRaw(r) \o <<" ">> \o year.s)

DateParsed(r, year) == OrElse(StrictParse(r, year), ParseDayFirst(DateRaw(r)))

\* The try block raises when the fallback yields timezone-aware values:
\* they do not fit the datetime64[ns] column Date_Parsed, which becomes an
\* object column (or the assignment is refused), and .dt fails on it.
DateFixRaises(df, year) == \E n \in 1..Len(df) : DateParsed(df[n], year).tz

\* step 5 and the dropna: the rows with their Date formatted, the rows whose
\* Date_Parsed is NaT dropped
FormatDates(df, parsed) ==
    LET keep == SelectSeq([n \in 1..Len(df) |-> n], LAMBDA n : parsed[n].ok)
    IN  [j \in 1..Len(keep) |->
            [df[keep[j]] EXCEPT !.Date = Str(Strftime(parsed[keep[j]]))]]

\* the date fix: the frame df_final it leaves
DateFix(df, parsed) ==
    IF \E n \in 1..Len(parsed) : parsed[n].tz THEN df ELSE FormatDates(df, parsed)

DateFixed(df, year) == DateFix(df, [n \in 1..Len(df) |-> DateParsed(df[n], year)])

\* line 215: the Description column sanitized
Sanitized(df) ==
    [n \in 1..Len(df) |->
        [df[n] EXCEPT !.Description = Str(clean_description_for_xero(df[n].Description))]]

\* df_xero: Date (NaN filled with ''), Description, the Amount rounded; the
\* rows without Date or Amount dropped
XeroFrame(df_final) ==
    LET rows == [n \in 1..Len(df_final) |->
                    [idx |-> df_final[n].idx,
                     Date |-> IF IsNone(df_final[n].Date) THEN <<>> ELSE df_final[n].Date.s,
                     Description |-> df_final[n].Description.s,
                     Amount |-> IF IsNone(df_final[n].Amount) THEN NoneV
                                ELSE Num(Round2(df_final[n].Amount.v))]]
    IN  SelectSeq(rows, LAMBDA r : ~IsNone(r.Amount))

\* `if not df_transactions.empty and 'Amount' in df_transactions.columns and statement_year`
Accepted(p) == p.df # <<>> /\ p.year.k = "str" /\ p.year.s # <<>>

\* the body of the if, for the frame after line 215
AcceptedBody(clean, raises, year, p_notices, f) ==
    [df_transactions |-> clean, statement_year |-> year,
     appended |-> TRUE, df_xero |-> XeroFrame(DateFixed(clean, year)),
     notices |-> p_notices
                 \o (IF raises THEN <<Notice(f, "warning", "dates_not_standardized")>>
                     ELSE <<>>)
                 \o <<Notice(f, "success", "extracted")>>]

SanitizedBody(clean, year, p_notices, f) ==
    AcceptedBody(clean, DateFixRaises(clean, year), year, p_notices, f)

\* the loop body after parse_pdf_data returned p
LoopBodyOf(p, f) ==
    IF Accepted(p)
    THEN SanitizedBody(Sanitized(p.df), p.year, p.notices, f)
    ELSE [df_transactions |-> p.df, statement_year |-> p.year,
          appended |-> FALSE, df_xero |-> <<>>,
          notices |-> p.notices]

\* One iteration of `for uploaded_file in uploaded_files`, for the file at
\* position f: what it leaves in df_transactions and statement_year, the
\* frame it appends to all_df (if any) and the messages it shows.
LoopBody(doc, f) == LoopBodyOf(parse_pdf_data(doc, f), f)

\* pd.concat(all_df, ignore_index=True): the rows of the frames in list order
RECURSIVE ConcatFrames(_, _)
ConcatFrames(frames, k) ==
    IF k = 0 THEN <<>>
    ELSE ConcatFrames(frames, k - 1) \o
         [n \in 1..Len(frames[k]) |->
            [Date |-> frames[k][n].Date,
             Description |-> frames[k][n].Description,
             Amount |-> frames[k][n].Amount.v]]

\* ------------------------------------------------------------- the inputs
\* Page texts
TextStatementDate == <<"S", "t", "a", "t", "e", "m", "e", "n", "t", " ", "D", "a", "t", "e", ":", " ", "0", "3", "/", "1", "0", "/", "2", "0", "2", "5">>
TextNoYear == <<"A", "c", "c", "o", "u", "n", "t", " ", "s", "u", "m", "m", "a", "r", "y">>
TextYearNextLine == <<"S", "t", "a", "t", "e", "m", "e", "n", "t", " ", "P", "e", "r", "i", "o", "d", "\n", "2", "0", "2", "5">>

\* Table headers
HeaderDebitCredit == <<"Date", "Description", "Debits (R)", "Credits (R)", "Fees (R)", "Balance (R)">>
HeaderAmount == <<"Trans Date", "Details", "Amount", "Balance">>
HeaderNoDescription == <<"Date", "Debits", "Credits">>

\* Table rows: cells in the order of HeaderDebitCredit
RowWoolworths ==
    <<Str(<<"0", "1", " ", "S", "e", "p">>), Str(<<"P", "O", "S", " ", "P", "u", "r", "c", "h", "a", "s", "e", " ", "W", "o", "o", "l", "w", "o", "r", "t", "h", "s", " ", "R", "e", "f", ":", "1", "2", "3", "4", "5">>), Str(<<"1", "5", "0", ",", "0", "0">>), Str(<<>>), Str(<<>>), Str(<<"1", " ", "0", "0", "0", ",", "0", "0">>)>>
RowSalary ==
    <<Str(<<"0", "2", " ", "S", "e", "p">>), Str(<<"S", "a", "l", "a", "r", "y">>), Str(<<>>), Str(<<"2", " ", "5", "0", "0", ",", "5", "0">>), Str(<<>>), Str(<<"3", " ", "5", "0", "0", ",", "5", "0">>)>>
RowServiceFee ==
    <<Str(<<"0", "3", " ", "S", "e", "p">>), Str(<<"M", "o", "n", "t", "h", "l", "y", " ", "s", "e", "r", "v", "i", "c", "e", " ", "f", "e", "e">>), Str(<<"5", ",", "0", "0">>), NoneV, Str(<<"5", ",", "0", "0">>), Str(<<"3", " ", "4", "9", "5", ",", "5", "0">>)>>
RowBadDate ==
    <<Str(<<"x", "x">>), Str(<<"S", "h", "o", "p">>), Str(<<"1", "0", ",", "0", "0">>), Str(<<>>), Str(<<>>), Str(<<"9", "0", ",", "0", "0">>)>>
RowPrefixOnly ==
    <<Str(<<"0", "4", " ", "S", "e", "p">>), Str(<<"E", "F", "T">>), Str(<<"2", "0", ",", "0", "0">>), Str(<<>>), Str(<<>>), Str(<<"7", "0", ",", "0", "0">>)>>
RowTiny ==
    <<Str(<<"0", "5", " ", "S", "e", "p">>), Str(<<"I", "n", "t", "e", "r", "e", "s", "t">>), Str(<<>>), Str(<<"0", ",", "0", "0", "4">>), Str(<<>>), Str(<<"7", "0", ",", "0", "0">>)>>
RowTzDate ==
    <<Str(<<"2", "0", "2", "5", "-", "0", "9", "-", "0", "6", "T", "0", "0", ":", "0", "0", "Z">>), Str(<<"T", "r", "a", "n", "s", "f", "e", "r">>), Str(<<"n", "/", "a">>), Str(<<"3", "0", ",", "0", "0">>), Str(<<>>), Str(<<"1", "0", "0", ",", "0", "0">>)>>
RowReversal ==
    <<Str(<<"0", "7", " ", "S", "e", "p">>), Str(<<"R", "e", "v", "e", "r", "s", "a", "l">>), Str(<<"1", "0", "0", ",", "0", "0">>), Str(<<"1", "0", "0", ",", "0", "0">>), Str(<<>>), Str(<<"1", "0", "0", ",", "0", "0">>)>>
RowFullDate ==
    <<Str(<<"0", "8", "/", "0", "9", "/", "2", "0", "2", "5">>), Str(<<"C", "a", "r", "d">>), Str(<<"1", "2", ",", "0", "0">>), Str(<<>>), Str(<<>>), Str(<<"8", "8", ",", "0", "0">>)>>
RowNoDate ==
    <<Str(<<>>), Str(<<"C", "a", "r", "r", "i", "e", "d", " ", "f", "o", "r", "w", "a", "r", "d">>), NoneV, NoneV, NoneV, Str(<<"8", "8", ",", "0", "0">>)>>

\* Table rows: cells in the order of HeaderAmount
RowAmtDr ==
    <<Str(<<"0", "1", " ", "S", "e", "p">>), Str(<<"S", "h", "o", "p">>), Str(<<"1", "5", "0", ",", "0", "0", "D", "r">>), Str(<<"8", "5", "0", ",", "0", "0">>)>>
RowAmtCr ==
    <<Str(<<"0", "2", " ", "S", "e", "p">>), Str(<<"D", "e", "p", "o", "s", "i", "t">>), Str(<<"2", "0", "0", ",", "0", "0", "C", "r">>), Str(<<"1", " ", "0", "5", "0", ",", "0", "0">>)>>
RowAmtJunk ==
    <<Str(<<"0", "3", " ", "S", "e", "p">>), Str(<<"S", "h", "o", "p">>), Str(<<"a", "b", "c">>), Str(<<"1", " ", "0", "5", "0", ",", "0", "0">>)>>
RowAmtMinus ==
    <<Str(<<"0", "4", " ", "S", "e", "p">>), Str(<<"B", "a", "n", "k", " ", "c", "h", "a", "r", "g", "e">>), Str(<<"-", "7", ",", "5", "0">>), Str(<<"1", " ", "0", "4", "2", ",", "5", "0">>)>>

\* A table row: cells in the order of HeaderNoDescription
RowNoDescription ==
    <<Str(<<"0", "1", " ", "S", "e", "p">>), Str(<<"1", ",", "0", "0">>), Str(<<>>)>>

Table(header, rows) == [header |-> header, rows |-> rows]

\* The tables of one document, page by page
TablePool ==
    { <<Table(HeaderDebitCredit, <<>>)>>,
      <<Table(HeaderDebitCredit, <<RowWoolworths, RowSalary>>)>>,
      <<Table(HeaderDebitCredit, <<RowSalary>>), Table(HeaderDebitCredit, <<RowWoolworths>>)>>,
      <<Table(HeaderDebitCredit, <<RowBadDate>>)>>,
      <<Table(HeaderDebitCredit, <<RowPrefixOnly, RowTiny>>)>>,
      <<Table(HeaderDebitCredit, <<RowWoolworths, RowTzDate>>)>>,
      <<Table(HeaderDebitCredit, <<RowReversal>>)>>,
      <<Table(HeaderDebitCredit, <<RowServiceFee, RowNoDate, RowBadDate, RowFullDate>>)>>,
      <<Table(HeaderAmount, <<RowAmtDr, RowAmtCr, RowAmtJunk, RowAmtMinus>>)>>,
      <<Table(HeaderNoDescription, <<RowNoDescription>>)>> }

\* The documents of a batch: every table set with and without a statement
\* year in the text, a document without pages, and one whose year stands on
\* the line after "Statement Period"
Docs ==
    [text : {TextStatementDate, TextNoYear}, tables : TablePool]
    \cup {[text |-> TextNoYear, tables |-> <<>>],
          [text |-> TextYearNextLine,
           tables |-> <<Table(HeaderDebitCredit, <<RowWoolworths, RowSalary>>)>>]}

\* sequences over S of length at most n
SeqsUpTo(S, n) == UNION {[1..k -> S] : k \in 0..n}

\* the characters of the amount strings and of the descriptions enumerated
\* for the two helper functions
ValueAlphabet == {"1", "0", ",", ".", "-", " ", "D", "r", "C"}
DescAlphabet == {"E", "F", "T", " ", "-"}

\* ------------------------------------------------------------------ state
VARIABLES
    uploaded_files,     \* the batch: the documents in upload order
    i,                  \* position of the next file of the for loop
    pc,                 \* "loop", "done"; "value" and "desc" for the helper runs
    all_df,             \* the list of per-document frames df_xero
    df_transactions,    \* module-level: the frame of the last file processed
    statement_year,     \* module-level: the year of the last file processed
    notices,            \* the st.info / st.success / st.warning / st.error shown
    final_combined_df,  \* the combined export
    download_offered,   \* whether st.download_button was reached
    cv_arg, cv_ret,     \* an argument of clean_value and what it returned
    desc_arg, desc_runs \* a description and the results of sanitizing it again and again

vars == <<uploaded_files, i, pc, all_df, df_transactions, statement_year, notices,
          final_combined_df, download_offered, cv_arg, cv_ret, desc_arg, desc_runs>>

pipeline_vars == <<uploaded_files, i, all_df, df_transactions, statement_year, notices,
                   final_combined_df, download_offered>>

helper_vars == <<cv_arg, cv_ret, desc_arg, desc_runs>>

PipelineIdle ==
    /\ uploaded_files = <<>>
    /\ i = 1
    /\ all_df = <<>>
    /\ df_transactions = <<>>
    /\ statement_year = NoneV
    /\ notices = <<>>
    /\ final_combined_df = <<>>
    /\ download_offered = FALSE

HelpersIdle ==
    /\ cv_arg = NoneV
    /\ cv_ret = NoneV
    /\ desc_arg = <<>>
    /\ desc_runs = <<>>

\* ------------------------------------------------- the script, one upload
Init ==
    /\ uploaded_files \in SeqsUpTo(Docs, MaxDocs)
    /\ i = 1
    /\ pc = "loop"
    /\ all_df = <<>>
    /\ df_transactions = <<>>
    /\ statement_year = NoneV
    /\ notices = <<>>
    /\ final_combined_df = <<>>
    /\ download_offered = FALSE
    /\ HelpersIdle

\* Iteration with a failed document discarding what the batch collected
IterationDiscarding(b) ==
    /\ df_transactions' = b.df_transactions
    /\ statement_year' = b.statement_year
    /\ all_df' = IF b.appended THEN Append(all_df, b.df_xero) ELSE <<>>
    /\ notices' = notices \o b.notices

\* the assignments of one iteration whose outcome is b
Iteration(b) ==
    /\ df_transactions' = b.df_transactions
    /\ statement_year' = b.statement_year
    /\ all_df' = IF b.appended THEN Append(all_df, b.df_xero) ELSE all_df
    /\ notices' = notices \o b.notices

\* one iteration of the for loop (lines 201-269)
ProcessFile ==
    /\ pc = "loop"
    /\ i <= Len(uploaded_files)
    /\ Iteration(LoopBody(uploaded_files[i], i))
    /\ i' = i + 1
    /\ UNCHANGED <<uploaded_files, pc, final_combined_df, download_offered>>
    /\ UNCHANGED helper_vars

\* "6. COMBINE AND DOWNLOAD" (lines 271-287), after the loop
CombineAndDownload ==
    /\ pc = "loop"
    /\ i > Len(uploaded_files)
    /\ IF uploaded_files # <<>> /\ all_df # <<>>
       THEN /\ final_combined_df' = ConcatFrames(all_df, Len(all_df))
            /\ download_offered' = TRUE
       ELSE UNCHANGED <<final_combined_df, download_offered>>
    /\ pc' = "done"
    /\ UNCHANGED <<uploaded_files, i, all_df, df_transactions, statement_year, notices>>
    /\ UNCHANGED helper_vars

Next == ProcessFile \/ CombineAndDownload

Spec == Init /\ [][Next]_vars

\* ------------------------------------------- clean_value on amount strings
InitValue ==
    /\ PipelineIdle
    /\ pc = "value"
    /\ cv_arg \in {Str(t) : t \in SeqsUpTo(ValueAlphabet, MaxValueLen)}
    /\ cv_ret = NoneV
    /\ desc_arg = <<>>
    /\ desc_runs = <<>>

CallCleanValue ==
    /\ pc = "value"
    /\ cv_ret' = clean_value(cv_arg)
    /\ pc' = "done"
    /\ UNCHANGED <<cv_arg, desc_arg, desc_runs>>
    /\ UNCHANGED pipeline_vars

NextValue == CallCleanValue

SpecValue == InitValue /\ [][NextValue]_vars

\* ----------------------- clean_description_for_xero applied again and again
InitDesc ==
    /\ PipelineIdle
    /\ pc = "desc"
    /\ desc_arg \in SeqsUpTo(DescAlphabet, MaxDescLen)
    /\ desc_runs = <<>>
    /\ cv_arg = NoneV
    /\ cv_ret = NoneV

ApplySanitizer ==
    /\ pc = "desc"
    /\ Len(desc_runs) < 2
    /\ desc_runs' = Append(desc_runs,
                           clean_description_for_xero(
                               Str(IF desc_runs = <<>> THEN desc_arg
                                   ELSE desc_runs[Len(desc_runs)])))
    /\ UNCHANGED <<pc, cv_arg, cv_ret, desc_arg>>
    /\ UNCHANGED pipeline_vars

NextDesc == ApplySanitizer

SpecDesc == InitDesc /\ [][NextDesc]_vars

\* ================================================================= claims
\* s contains pat, ignoring letter case
HasSubCI(s, pat) == \E n \in 1..Len(s) : MatchAtCI(s, n, pat)

\* the documents the loop has processed so far
Processed == 1..(i - 1)

\* ----------------------------------------------------------------------- C1
\* what the claim counts for a cell: its normalized value, zero when the cell
\* is missing, empty or unparseable
CellValueOrZero(cell) ==
    IF cell.k = "str" /\ clean_value(cell).k = "num" THEN clean_value(cell).v ELSE 0

\* the cells of the table row a transaction row came from
SourceRow(doc, r) == StandardFrame(doc).rows[r.idx + 1]

SeparateDebitCredit(doc) ==
    /\ KeptTables(doc.tables) # <<>>
    /\ HasCol(StandardFrame(doc).cols, "Debits")
    /\ HasCol(StandardFrame(doc).cols, "Credits")
    /\ ~HasCol(StandardFrame(doc).cols, "Amount")

AmountMatchesCells(doc, r) ==
    LET credit == CellOf(StandardFrame(doc), SourceRow(doc, r), "Credits")
        debit == CellOf(StandardFrame(doc), SourceRow(doc, r), "Debits")
    IN  /\ r.Amount.k = "num"
        /\ r.Amount.v = CellValueOrZero(credit) - CellValueOrZero(debit)
        /\ (debit = Str(<<"1", "5", "0", ",", "0", "0">>) /\ credit = Str(<<>>))
               => r.Amount.v = 0 - 150 * Pow10(Frac)

\* C1: in structured mode, for a table with separate Debits and Credits
\* columns and no Amount column, the Amount of every row the extraction
\* returns is clean_value(Credits) minus clean_value(Debits), a missing, empty
\* or unparseable cell counting as zero (Debits "150,00", Credits "" gives
\* -150.00).
C1_AmountIsCreditsMinusDebits ==
    (i > 1 /\ SeparateDebitCredit(uploaded_files[i - 1]))
        => \A n \in 1..Len(df_transactions) :
               AmountMatchesCells(uploaded_files[i - 1], df_transactions[n])

\* a debit of 150,00 with an empty credit cell was extracted as -150.00
C1_Witness ==
    /\ i > 1
    /\ SeparateDebitCredit(uploaded_files[i - 1])
    /\ \E n \in 1..Len(df_transactions) :
           /\ df_transactions[n].Amount.v = 0 - 150 * Pow10(Frac)
           /\ CellOf(StandardFrame(uploaded_files[i - 1]),
                     SourceRow(uploaded_files[i - 1], df_transactions[n]),
                     "Credits") = Str(<<>>)

\* ----------------------------------------------------------------------- C2
\* C2: an amount string that contains "Dr" (any letter case, any position)
\* normalizes to a negative number, and one that contains "Cr" to a
\* non-negative number.  Stated on the strings that normalize to a number
\* other than zero, where the sign leaves no doubt.
C2_DrNegativeCrNonNegative ==
    (pc = "done" /\ cv_ret.k = "num" /\ cv_ret.v # 0)
        => /\ HasSubCI(cv_arg.s, <<"D", "r">>) => cv_ret.v < 0
           /\ HasSubCI(cv_arg.s, <<"C", "r">>) => cv_ret.v > 0

\* ----------------------------------------------------------------------- C3
FeeWords == <<<<"f", "e", "e">>, <<"c", "h", "a", "r", "g", "e">>, <<"s", "e", "r", "v", "i", "c", "e">>>>

FeeLike(description) == \E k \in 1..Len(FeeWords) : HasSubCI(description, FeeWords[k])

\* C3: no row whose description contains "fee", "charge" or "service"
\* (case-insensitive) appears in the combined export.
C3_NoFeeRowsExported ==
    \A n \in 1..Len(final_combined_df) : ~FeeLike(final_combined_df[n].Description)

\* ----------------------------------------------------------------------- C4
\* the rows of a per-document frame as they appear in the export
ExportRows(frame) ==
    [n \in 1..Len(frame) |->
        [Date |-> frame[n].Date,
         Description |-> frame[n].Description,
         Amount |-> frame[n].Amount.v]]

\* what the document at position k contributes: nothing when it fails (no
\* statement year found, or no transactions extracted), its surviving rows
\* otherwise
Contribution(doc, k) ==
    IF IsNone(YearSearch(doc.text)) \/ parse_pdf_data(doc, k).df = <<>>
    THEN <<>>
    ELSE ExportRows(LoopBody(doc, k).df_xero)

RECURSIVE Contributions(_, _)
Contributions(files, k) ==
    IF k = 0 THEN <<>>
    ELSE Contributions(files, k - 1) \o Contribution(files[k], k)

\* the rows of a frame are in the order of the table rows they came from,
\* none twice
InTableOrder(frame) ==
    \A a, b \in 1..Len(frame) : a < b => frame[a].idx < frame[b].idx

\* C4: the combined export is the concatenation, in upload order, of every
\* document's surviving rows in their order within the document, nothing
\* reordered, duplicated or removed; a document that fails (no statement year
\* found) contributes no row and the documents after it still contribute
\* theirs.
C4_ExportIsOrderedConcatenation ==
    /\ \A k \in 1..Len(all_df) : InTableOrder(all_df[k])
    /\ pc = "done"
           => final_combined_df = Contributions(uploaded_files, Len(uploaded_files))

\* a document without a statement year, whose table has valid rows, was
\* followed by a document whose rows are in the export
C4_Witness ==
    /\ pc = "done"
    /\ Len(uploaded_files) = 2
    /\ IsNone(YearSearch(uploaded_files[1].text))
    /\ parse_pdf_data(uploaded_files[1], 1).df # <<>>
    /\ Len(final_combined_df) >= 2
    /\ final_combined_df = Contribution(uploaded_files[2], 2)

\* ----------------------------------------------------------------------- C5
FailureNoticeFor(k) ==
    \E n \in 1..Len(notices) :
        notices[n].file = k /\ notices[n].level \in {"error", "warning"}

\* C5: every processed document in whose text no statement year is found
\* has a failure notice (an error or a warning) recorded for it, also when
\* its tables yielded valid transaction rows.
C5_NoYearIsReported ==
    \A k \in Processed :
        IsNone(YearSearch(uploaded_files[k].text)) => FailureNoticeFor(k)

\* ----------------------------------------------------------------------- C6
\* C6: when no document of the batch yields a transaction in the combined
\* result, no download is offered.
C6_NoTransactionsNoDownload ==
    (pc = "done" /\ \A k \in 1..Len(all_df) : all_df[k] = <<>>) => ~download_offered

\* ----------------------------------------------------------------------- C7
\* s is DD/MM/YYYY and names a day of the calendar
IsCalendarDate(s) ==
    /\ Len(s) = 10
    /\ s[3] = "/" /\ s[6] = "/"
    /\ \A n \in {1, 2, 4, 5, 7, 8, 9, 10} : s[n] \in Digits
    /\ ToInt(SubSeq(s, 4, 5)) \in 1..12
    /\ ToInt(SubSeq(s, 1, 2)) >= 1
    /\ ToInt(SubSeq(s, 1, 2)) <= DaysIn(ToInt(SubSeq(s, 4, 5)), ToInt(SubSeq(s, 7, 10)))

\* C7: every row of the combined export has a Date that is a valid calendar
\* date formatted DD/MM/YYYY; no row is exported with a raw, empty or
\* default date.
C7_ExportedDatesAreCalendarDates ==
    \A n \in 1..Len(final_combined_df) : IsCalendarDate(final_combined_df[n].Date)

\* ----------------------------------------------------------------------- C8
\* C8: every row of the combined export has a non-empty Description after
\* sanitization.
C8_ExportedDescriptionsNonEmpty ==
    \A n \in 1..Len(final_combined_df) : final_combined_df[n].Description # <<>>

\* ----------------------------------------------------------------------- C9
\* C9: the sanitizer is idempotent: sanitizing a sanitized description
\* changes nothing.
C9_SanitizerIdempotent ==
    Len(desc_runs) = 2 => desc_runs[2] = desc_runs[1]

\* ---------------------------------------------------------------------- C10
\* C10: every row of the combined export has an Amount that, rounded to two
\* decimals, is not 0.00.
C10_ExportedAmountsNonZero ==
    \A n \in 1..Len(final_combined_df) : final_combined_df[n].Amount # 0

====
